---- MODULE Spec2Model ----
(***************************************************************************)
(* Model of the dynamics stage of camilladsp: the Compressor               *)
(* (src/src/compressor.rs) and the Limiter (src/src/limiter.rs).           *)
(*                                                                         *)
(* PrcFmt values are fixed-point integers: the real number r is the        *)
(* integer r * SCALE, products and quotients are rescaled and truncated    *)
(* towards zero.  Time constants are whole seconds, levels are multiples   *)
(* of 20 dB, so that exp, powf and log10 are computable on the inputs the  *)
(* model draws.                                                            *)
(***************************************************************************)
EXTENDS Integers, Sequences, FiniteSets, TLC

VARIABLES
    comp,       \* the Compressor, or NoComp before construction
    cfg,        \* the CompressorParameters last given to from_config / update_parameters
    chunk,      \* AudioChunk.waveforms as process_chunk left it
    inchunk,    \* AudioChunk.waveforms as the last process_chunk received it
    monsum,     \* scratch as the first sum_monitor_channels of the last process_chunk left it
    gaincurve,  \* scratch as calculate_linear_gain of the last process_chunk left it
    cres,       \* outcome of the last Compressor operation
    cops,       \* number of Compressor operations the run still makes
    lim,        \* the standalone Limiter
    lcfg,       \* the LimiterParameters last given to from_config / update_parameters
    lres,       \* the last Limiter operation
    base,       \* prev_peak and history of lim when its delay line was last created
    inStream,   \* samples fed to process_waveform since the delay line was created
    outStream,  \* samples process_waveform produced since the delay line was created
    lops,       \* number of Limiter operations so far
    vcfg,       \* the CompressorParameters last given to validate_compressor
    vres        \* what validate_compressor did with vcfg

cvars == <<comp, cfg, chunk, inchunk, monsum, gaincurve, cres, cops>>
lvars == <<lim, lcfg, lres, base, inStream, outStream, lops>>
vvars == <<vcfg, vres>>
vars == <<comp, cfg, chunk, inchunk, monsum, gaincurve, cres, cops,
          lim, lcfg, lres, base, inStream, outStream, lops, vcfg, vres>>

----------------------------------------------------------------------------
(* Bounds of the model.                                                    *)

MaxChannels == 3
MaxListLen == 3
MaxCompOps == 2
MaxProcessLen == 2
MaxChunkOps == 1
ChunkSize == 2
MaxValListLen == 1
MaxLookahead == 2
MaxBlock == 2
MaxLimOps == 3
MaxValChannels == 2
UsizeBits == 16

----------------------------------------------------------------------------
(* PrcFmt arithmetic.                                                      *)

SCALE == 1000

Abs(x) == IF x < 0 THEN -x ELSE x

Max(a, b) == IF a >= b THEN a ELSE b

Min(a, b) == IF a <= b THEN a ELSE b

Sign(x) == IF x < 0 THEN -1 ELSE 1

Mul(a, b) == Sign(a) * Sign(b) * ((Abs(a) * Abs(b)) \div SCALE)

Div(a, b) == Sign(a) * Sign(b) * ((Abs(a) * SCALE) \div Abs(b))

Clamp(x, lo, hi) == IF x < lo THEN lo ELSE IF x > hi THEN hi ELSE x

RECURSIVE Powi(_, _)
Powi(x, n) == IF n = 0 THEN SCALE ELSE Mul(x, Powi(x, n - 1))

RECURSIVE RootSearch(_, _, _, _)
RootSearch(x, k, lo, hi) ==
    IF lo >= hi THEN lo
    ELSE LET mid == (lo + hi + 1) \div 2
         IN  IF Powi(mid, k) <= x THEN RootSearch(x, k, mid, hi)
             ELSE RootSearch(x, k, lo, mid - 1)

\* 10^(log10(x) / k): the k-th root of x, for 0 <= x <= 1.
Root(x, k) == RootSearch(x, k, 0, SCALE)

RECURSIVE SqrtSearch(_, _, _)
SqrtSearch(n, lo, hi) ==
    IF lo >= hi THEN lo
    ELSE LET mid == (lo + hi + 1) \div 2
         IN  IF mid * mid <= n THEN SqrtSearch(n, mid, hi)
             ELSE SqrtSearch(n, lo, mid - 1)

Sqrt(x) == SqrtSearch(x * SCALE, 0, Max(x, SCALE))

\* 10^(db / 20) for db a multiple of 20.
RECURSIVE DbToLinear(_)
DbToLinear(db) ==
    IF db = 0 THEN SCALE
    ELSE IF db > 0 THEN 10 * DbToLinear(db - 20)
    ELSE DbToLinear(db + 20) \div 10

\* e^(-1 / d) for an integer d, by the Taylor series of exp to seven terms;
\* -1 / 0.0 is -inf and its exp is 0.
TruncDiv(a, b) == Sign(a) * Sign(b) * (Abs(a) \div Abs(b))

RECURSIVE ExpTerm(_, _)
ExpTerm(d, k) == IF k = 0 THEN SCALE ELSE TruncDiv(0 - ExpTerm(d, k - 1), d * k)

RECURSIVE ExpSum(_, _)
ExpSum(d, k) == IF k = 0 THEN ExpTerm(d, 0) ELSE ExpTerm(d, k) + ExpSum(d, k - 1)

ExpNegInv(d) == IF d = 0 THEN 0 ELSE ExpSum(d, 6)

RECURSIVE SeqSum(_)
SeqSum(s) == IF s = <<>> THEN 0 ELSE Head(s) + SeqSum(Tail(s))

Repeat(x, n) == [i \in 1..n |-> x]

Range(s) == {s[i] : i \in 1..Len(s)}

----------------------------------------------------------------------------
(* circular_queue::CircularQueue, as the Limiter uses it: a FIFO of at     *)
(* most `cap` values; a push at capacity drops the oldest value, a push on *)
(* a queue of capacity 0 stores nothing.                                   *)

with_capacity(n) == [cap |-> n, items |-> <<>>]

push(q, x) ==
    IF q.cap = 0 THEN q
    ELSE IF Len(q.items) < q.cap THEN [q EXCEPT !.items = Append(@, x)]
    ELSE [q EXCEPT !.items = Append(Tail(@), x)]

RECURSIVE SeqMax(_, _)
SeqMax(s, m) == IF s = <<>> THEN m ELSE SeqMax(Tail(s), Max(Head(s), m))

\* asc_iter().fold(0.0, |max, x| x.max(max))
max_sample(q) == SeqMax(q.items, 0)

----------------------------------------------------------------------------
(* basicfilters::Delay with unit Samples: a line of `delay` samples,       *)
(* zero at creation; each sample pushed in pushes the oldest one out.      *)

Delay_from_config(delay) == Repeat(0, delay)

\* [delay |-> the line afterwards, out |-> the waveform afterwards]
Delay_process_waveform(line, waveform) ==
    LET all == line \o waveform
        n == Len(waveform)
    IN  [delay |-> SubSeq(all, n + 1, Len(all)), out |-> SubSeq(all, 1, n)]

----------------------------------------------------------------------------
(* Limiter (src/src/limiter.rs).  LimiterParameters is                     *)
(* [clip_limit (dB), soft_clip, lookahead (samples)].                      *)

CUBEFACTOR == (SCALE * 100) \div 675

calculate_lookahead_parameters(lookahead, sample_rate) ==
    LET overshoot == SCALE + SCALE \div 100
        alpha == SCALE - Root(Div(overshoot - SCALE, overshoot), lookahead + 1)
        beta == Powi(SCALE - alpha, lookahead + 1)
    IN  [alpha |-> alpha, beta |-> beta, delay |-> Delay_from_config(lookahead)]

Limiter_from_config(sample_rate, config) ==
    LET p == calculate_lookahead_parameters(config.lookahead, sample_rate)
    IN  [soft_clip |-> config.soft_clip,
         clip_limit |-> DbToLinear(config.clip_limit),
         sample_rate |-> sample_rate,
         delay |-> p.delay,
         lookahead |-> config.lookahead,
         clip_control_history |-> with_capacity(config.lookahead),
         prev_peak |-> 0,
         alpha |-> p.alpha,
         beta |-> p.beta]

soft_clip_sample(l, val) ==
    LET scaled == Clamp(Div(val, l.clip_limit), 0 - (3 * SCALE) \div 2, (3 * SCALE) \div 2)
    IN  Mul(scaled - Mul(CUBEFACTOR, Powi(scaled, 3)), l.clip_limit)

apply_soft_clip(l, input) == [i \in 1..Len(input) |-> soft_clip_sample(l, input[i])]

apply_hard_clip(l, input) ==
    [i \in 1..Len(input) |-> Clamp(input[i], 0 - l.clip_limit, l.clip_limit)]

apply_clip(l, input) ==
    IF l.soft_clip THEN apply_soft_clip(l, input) ELSE apply_hard_clip(l, input)

\* One step of the closure of calculate_gain: [lim, gain].
gain_step(l, x) ==
    LET sample == Abs(x)
        sample_overshoot == Div(sample - Mul(l.beta, l.prev_peak), SCALE - l.beta)
        clipping_control == Max(sample, sample_overshoot)
        history == push(l.clip_control_history, clipping_control)
        peak == Mul(l.alpha, max_sample(history)) + Mul(SCALE - l.alpha, l.prev_peak)
    IN  [lim |-> [l EXCEPT !.clip_control_history = history, !.prev_peak = peak],
         gain |-> IF peak > l.clip_limit THEN Div(l.clip_limit, peak) ELSE SCALE]

\* [lim |-> the Limiter afterwards, gains |-> the vector returned]
RECURSIVE calculate_gain(_, _)
calculate_gain(l, waveform) ==
    IF waveform = <<>> THEN [lim |-> l, gains |-> <<>>]
    ELSE LET s == gain_step(l, Head(waveform))
             r == calculate_gain(s.lim, Tail(waveform))
         IN  [lim |-> r.lim, gains |-> <<s.gain>> \o r.gains]

apply_limiter(gains, waveform) ==
    [i \in 1..Min(Len(waveform), Len(gains)) |-> Mul(waveform[i], gains[i])]

\* process_waveform with the gains taken from the block after it was delayed.
process_waveform_delay_first(l, waveform) ==
    IF l.lookahead > 0
    THEN LET d == Delay_process_waveform(l.delay, waveform)
             g == calculate_gain(l, d.out)
         IN  [lim |-> [g.lim EXCEPT !.delay = d.delay],
              out |-> apply_limiter(g.gains, d.out)]
    ELSE [lim |-> l, out |-> apply_clip(l, waveform)]

\* [lim |-> the Limiter afterwards, out |-> the waveform afterwards]
process_waveform(l, waveform) ==
    IF l.lookahead > 0
    THEN LET g == calculate_gain(l, waveform)
             d == Delay_process_waveform(l.delay, waveform)
         IN  [lim |-> [g.lim EXCEPT !.delay = d.delay],
              out |-> apply_limiter(g.gains, d.out)]
    ELSE [lim |-> l, out |-> apply_clip(l, waveform)]

Limiter_update_parameters(l, config) ==
    LET p == calculate_lookahead_parameters(config.lookahead, l.sample_rate)
    IN  [l EXCEPT !.delay = p.delay,
                  !.lookahead = config.lookahead,
                  !.alpha = p.alpha,
                  !.beta = p.beta,
                  !.soft_clip = config.soft_clip,
                  !.clip_limit = DbToLinear(config.clip_limit)]

----------------------------------------------------------------------------
(* validate_compressor (src/src/compressor.rs).  CompressorParameters is   *)
(* [channels, monitor_channels, process_channels, attack, release (s),     *)
(*  threshold, makeup_gain (dB), factor, clip_limit (<<>> for None, <<dB>> *)
(*  for Some), soft_clip, clip_lookahead, clip_use_monitor,                *)
(*  monitor_use_power]; channel lists hold 0-based indices.                *)

Ok == [kind |-> "Ok", msg |-> "", args |-> <<>>]

ConfigError(msg, args) == [kind |-> "Err", msg |-> msg, args |-> args]

Panic(msg) == [kind |-> "panic", msg |-> msg, args |-> <<>>]

\* vres before validate_compressor has been called.
NotValidated == [kind |-> "none", msg |-> "", args |-> <<>>]

\* The first index of `list` that is >= channels, 0 if there is none.
FirstInvalid(list, channels) ==
    IF \E k \in 1..Len(list) : list[k] >= channels
    THEN CHOOSE k \in 1..Len(list) :
            /\ list[k] >= channels
            /\ \A j \in 1..(k - 1) : list[j] < channels
    ELSE 0

\* channels - 1 on usize: with overflow checks (a debug build) 0 - 1
\* panics, without them (a release build) it wraps.
InvalidChannel(msg, ch, channels, overflow_checks) ==
    IF channels >= 1 THEN ConfigError(msg, <<ch, channels - 1>>)
    ELSE IF overflow_checks THEN Panic("attempt to subtract with overflow")
    ELSE ConfigError(msg, <<ch, (channels - 1) % (2 ^ UsizeBits)>>)

validate_compressor(config, overflow_checks) ==
    LET channels == config.channels
        m == FirstInvalid(config.monitor_channels, channels)
        p == FirstInvalid(config.process_channels, channels)
    IN  IF config.attack <= 0
        THEN ConfigError("Attack value must be larger than zero.", <<>>)
        ELSE IF config.release <= 0
        THEN ConfigError("Release value must be larger than zero.", <<>>)
        ELSE IF m # 0
        THEN InvalidChannel("Invalid monitor channel: {}, max is: {}.",
                            config.monitor_channels[m], channels, overflow_checks)
        ELSE IF p # 0
        THEN InvalidChannel("Invalid channel to process: {}, max is: {}.",
                            config.process_channels[p], channels, overflow_checks)
        ELSE Ok


----------------------------------------------------------------------------
(* Compressor (src/src/compressor.rs).  waveforms[ch + 1] is the waveform  *)
(* of channel ch; limiters is [some, bank] for Option<Vec<Limiter>>.       *)

AllChannels(channels) == [n \in 1..channels |-> n - 1]

LimiterBank(config, samplerate, process_channels) ==
    IF config.clip_limit # <<>>
    THEN [some |-> TRUE,
          bank |-> Repeat(Limiter_from_config(samplerate,
                              [clip_limit |-> config.clip_limit[1],
                               soft_clip |-> config.soft_clip,
                               lookahead |-> config.clip_lookahead]),
                          Len(process_channels))]
    ELSE [some |-> FALSE, bank |-> <<>>]

\* (-1.0 / srate / time).exp()
Coefficient(srate, time) == ExpNegInv(srate * time)

from_config(config, samplerate, chunksize) ==
    LET monitor_channels ==
            IF config.monitor_channels = <<>> THEN AllChannels(config.channels)
            ELSE config.monitor_channels
        process_channels ==
            IF config.process_channels = <<>> THEN AllChannels(config.channels)
            ELSE config.process_channels
    IN  [channels |-> config.channels,
         monitor_channels |-> monitor_channels,
         process_channels |-> process_channels,
         attack |-> Coefficient(samplerate, config.attack),
         release |-> Coefficient(samplerate, config.release - config.attack),
         threshold |-> config.threshold,
         factor |-> config.factor,
         makeup_gain |-> config.makeup_gain,
         limiters |-> LimiterBank(config, samplerate, process_channels),
         samplerate |-> samplerate,
         scratch |-> Repeat(0, chunksize),
         prev_loudness |-> 0,
         prev_gain |-> SCALE,
         clip_use_monitor |-> config.clip_use_monitor,
         monitor_use_power |-> config.monitor_use_power]

Compressor_update_parameters(c, config) ==
    LET monitor_channels ==
            IF config.monitor_channels = <<>> THEN AllChannels(config.channels)
            ELSE config.monitor_channels
        process_channels ==
            IF config.process_channels = <<>> THEN AllChannels(config.channels)
            ELSE config.process_channels
    IN  [c EXCEPT !.limiters = LimiterBank(config, c.samplerate, process_channels),
                  !.monitor_channels = monitor_channels,
                  !.process_channels = process_channels,
                  !.attack = Coefficient(c.samplerate, config.attack),
                  !.release = Coefficient(c.samplerate, config.release),
                  !.threshold = config.threshold,
                  !.factor = config.factor,
                  !.makeup_gain = config.makeup_gain,
                  !.clip_use_monitor = config.clip_use_monitor,
                  !.monitor_use_power = config.monitor_use_power]

\* waveforms[ch] is an index in bounds.
HasChannel(waveforms, ch) == ch < Len(waveforms)

\* The fold of the power branch at sample idx: the channel read for the
\* list element `channel` is monitor_channels[channel].
PowerSum(c, waveforms, idx) ==
    Sqrt(SeqSum([k \in 1..Len(c.monitor_channels) |->
            Powi(waveforms[c.monitor_channels[c.monitor_channels[k] + 1] + 1][idx], 2)]))

\* An index of the power branch is out of bounds.
PowerPanics(c, waveforms) ==
    \/ c.monitor_channels = <<>>
    \/ ~HasChannel(waveforms, c.monitor_channels[1])
    \/ /\ Len(waveforms[c.monitor_channels[1] + 1]) > 0
       /\ \E k \in 1..Len(c.monitor_channels) :
            \/ c.monitor_channels[k] >= Len(c.monitor_channels)
            \/ ~HasChannel(waveforms, c.monitor_channels[c.monitor_channels[k] + 1])
    \/ Len(waveforms[c.monitor_channels[1] + 1]) > Len(c.scratch)

VoltageSum(c, waveforms, idx) ==
    SeqSum([k \in 1..Len(c.monitor_channels) |->
            IF idx <= Len(waveforms[c.monitor_channels[k] + 1])
            THEN waveforms[c.monitor_channels[k] + 1][idx] ELSE 0])

VoltagePanics(c, waveforms) ==
    \/ c.monitor_channels = <<>>
    \/ \E k \in 1..Len(c.monitor_channels) : ~HasChannel(waveforms, c.monitor_channels[k])
    \/ Len(waveforms[c.monitor_channels[1] + 1]) # Len(c.scratch)

\* [panic |-> an index was out of bounds, scratch |-> scratch afterwards]
sum_monitor_channels(c, waveforms) ==
    IF Len(c.monitor_channels) = 1
    THEN IF \/ ~HasChannel(waveforms, c.monitor_channels[1])
            \/ Len(waveforms[c.monitor_channels[1] + 1]) # Len(c.scratch)
         THEN [panic |-> TRUE, scratch |-> c.scratch]
         ELSE [panic |-> FALSE, scratch |-> waveforms[c.monitor_channels[1] + 1]]
    ELSE IF c.monitor_use_power
    THEN IF PowerPanics(c, waveforms)
         THEN [panic |-> TRUE, scratch |-> c.scratch]
         ELSE [panic |-> FALSE,
               scratch |-> [idx \in 1..Len(c.scratch) |->
                    IF idx <= Len(waveforms[c.monitor_channels[1] + 1])
                    THEN PowerSum(c, waveforms, idx) ELSE c.scratch[idx]]]
    ELSE IF VoltagePanics(c, waveforms)
         THEN [panic |-> TRUE, scratch |-> c.scratch]
         ELSE [panic |-> FALSE,
               scratch |-> [idx \in 1..Len(c.scratch) |-> VoltageSum(c, waveforms, idx)]]

\* The Compressor after the loop of estimate_loudness has run over
\* scratch[idx..].
RECURSIVE estimate_loudness_from(_, _)
estimate_loudness_from(c, idx) ==
    IF idx > Len(c.scratch) THEN c
    ELSE LET loudness == Mul(c.attack, c.prev_loudness)
                         + Mul(SCALE - c.attack, Powi(c.scratch[idx], 2))
         IN  estimate_loudness_from(
                [c EXCEPT !.prev_loudness = loudness, !.scratch[idx] = Sqrt(loudness)],
                idx + 1)

estimate_loudness(c) == estimate_loudness_from(c, 1)

\* 10^(gain_db / 20) with gain_db = -(20 log10(val) - threshold) * (factor - 1) / factor:
\* (threshold_linear / val) to the power (factor - 1) / factor, for factor 1 or 2.
CompressorGain(val, threshold_linear, factor) ==
    LET ratio == Div(threshold_linear, val)
    IN  IF factor = 1 THEN SCALE ELSE Sqrt(ratio)

RECURSIVE calculate_linear_gain_from(_, _)
calculate_linear_gain_from(c, idx) ==
    IF idx > Len(c.scratch) THEN c
    ELSE LET threshold_linear == DbToLinear(c.threshold)
             makeup_gain_linear == DbToLinear(c.makeup_gain)
             val == c.scratch[idx]
             gain == IF val > threshold_linear
                     THEN IF c.factor > 1000
                          THEN Div(threshold_linear, val)
                          ELSE CompressorGain(val, threshold_linear, c.factor)
                     ELSE Mul(c.release, c.prev_gain) + Mul(SCALE - c.release, SCALE)
         IN  calculate_linear_gain_from(
                [c EXCEPT !.prev_gain = gain, !.scratch[idx] = Mul(gain, makeup_gain_linear)],
                idx + 1)

calculate_linear_gain(c) == calculate_linear_gain_from(c, 1)

apply_gain(c, input) ==
    [i \in 1..Len(input) |->
        IF i <= Len(c.scratch) THEN Mul(input[i], c.scratch[i]) ELSE input[i]]

\* The waveforms after the loop over process_channels[k..] has applied the gain.
RECURSIVE apply_gain_from(_, _, _)
apply_gain_from(c, waveforms, k) ==
    IF k > Len(c.process_channels) THEN waveforms
    ELSE LET ch == c.process_channels[k]
         IN  apply_gain_from(c,
                [waveforms EXCEPT ![ch + 1] = apply_gain(c, waveforms[ch + 1])], k + 1)


\* Limiter::process_limiter: the Limiter takes its gain from the channel's
\* own waveform and applies it to that waveform.
process_limiter(l, waveform) == process_waveform(l, waveform)

\* Limiter::process_limiter_with_monitor: the Limiter takes its gain from
\* the monitor signal and applies it to the channel's waveform.
process_limiter_with_monitor(l, monitor, waveform) ==
    IF l.lookahead > 0
    THEN LET g == calculate_gain(l, monitor)
             d == Delay_process_waveform(l.delay, waveform)
         IN  [lim |-> [g.lim EXCEPT !.delay = d.delay],
              out |-> apply_limiter(g.gains, d.out)]
    ELSE [lim |-> l, out |-> apply_clip(l, waveform)]

\* [bank, waveforms] after the loop over zip(limiters, process_channels)[k..].
RECURSIVE limit_from(_, _, _, _)
limit_from(c, bank, waveforms, k) ==
    IF k > Min(Len(bank), Len(c.process_channels))
    THEN [bank |-> bank, waveforms |-> waveforms]
    ELSE LET ch == c.process_channels[k]
             r == IF c.clip_use_monitor
                  THEN process_limiter_with_monitor(bank[k], c.scratch, waveforms[ch + 1])
                  ELSE process_limiter(bank[k], waveforms[ch + 1])
         IN  limit_from(c, [bank EXCEPT ![k] = r.lim],
                        [waveforms EXCEPT ![ch + 1] = r.out], k + 1)

\* process_chunk: [panic, comp, waveforms afterwards, monsum (scratch after
\* the first sum_monitor_channels), gaincurve (scratch after
\* calculate_linear_gain)].
process_chunk(c, waveforms) ==
    LET summed == sum_monitor_channels(c, waveforms)
        c1 == calculate_linear_gain(estimate_loudness([c EXCEPT !.scratch = summed.scratch]))
        gained == apply_gain_from(c1, waveforms, 1)
        resummed == sum_monitor_channels(c1, gained)
        c2 == IF c.clip_use_monitor THEN [c1 EXCEPT !.scratch = resummed.scratch] ELSE c1
        limited == IF c.limiters.some
                   THEN limit_from(c2, c.limiters.bank, gained, 1)
                   ELSE [bank |-> <<>>, waveforms |-> gained]
    IN  IF summed.panic
        THEN [panic |-> TRUE, comp |-> c, waveforms |-> waveforms,
              monsum |-> <<>>, gaincurve |-> <<>>]
        ELSE IF \E k \in 1..Len(c.process_channels) :
                    ~HasChannel(waveforms, c.process_channels[k])
        THEN [panic |-> TRUE, comp |-> c1, waveforms |-> waveforms,
              monsum |-> summed.scratch, gaincurve |-> c1.scratch]
        ELSE IF c.clip_use_monitor /\ resummed.panic
        THEN [panic |-> TRUE, comp |-> c1, waveforms |-> gained,
              monsum |-> summed.scratch, gaincurve |-> c1.scratch]
        ELSE [panic |-> FALSE,
              comp |-> [c2 EXCEPT !.limiters.bank = limited.bank],
              waveforms |-> limited.waveforms,
              monsum |-> summed.scratch, gaincurve |-> c1.scratch]


----------------------------------------------------------------------------
(* The standalone Limiter: construction, then process_waveform and         *)
(* update_parameters in any order.                                         *)

LimiterSamples == {600, 0 - 2500}

LimiterBlocks == UNION {[1..n -> LimiterSamples] : n \in 1..MaxBlock}

\* soft_clip is read only when lookahead = 0 and is drawn there only.
LimiterConfigs ==
    {c \in [clip_limit : {0}, soft_clip : BOOLEAN, lookahead : 0..MaxLookahead] :
        c.soft_clip => c.lookahead = 0}

Envelope(l) == [prev_peak |-> l.prev_peak, history |-> l.clip_control_history]

\* The values the other components hold while one component is exercised.
CompressorIdle ==
    /\ comp = "none" /\ cfg = "none" /\ chunk = <<>> /\ inchunk = <<>>
    /\ monsum = <<>> /\ gaincurve = <<>> /\ cres = "none" /\ cops = 0

LimiterIdle ==
    /\ lim = "none" /\ lcfg = "none" /\ lres = "none" /\ base = "none"
    /\ inStream = <<>> /\ outStream = <<>> /\ lops = 0

ValidateIdle == vcfg = "none" /\ vres = NotValidated

InitLimiter ==
    /\ \E c \in LimiterConfigs :
        /\ lcfg = c
        /\ lim = Limiter_from_config(48000, c)
        /\ base = Envelope(Limiter_from_config(48000, c))
    /\ lres = "from_config"
    /\ inStream = <<>>
    /\ outStream = <<>>
    /\ lops = 0
    /\ CompressorIdle
    /\ ValidateIdle

ProcessWaveform ==
    /\ lops < MaxLimOps
    /\ \E w \in LimiterBlocks :
        LET r == process_waveform(lim, w)
        IN  /\ lim' = r.lim
            /\ inStream' = inStream \o w
            /\ outStream' = outStream \o r.out
    /\ lres' = "process_waveform"
    /\ lops' = lops + 1
    /\ UNCHANGED <<lcfg, base>>
    /\ UNCHANGED cvars
    /\ UNCHANGED vvars

UpdateLimiter ==
    /\ lops < MaxLimOps
    /\ \E c \in LimiterConfigs :
        /\ lcfg' = c
        /\ lim' = Limiter_update_parameters(lim, c)
        /\ base' = Envelope(Limiter_update_parameters(lim, c))
    /\ lres' = "update_parameters"
    /\ inStream' = <<>>
    /\ outStream' = <<>>
    /\ lops' = lops + 1
    /\ UNCHANGED cvars
    /\ UNCHANGED vvars

NextLimiter == ProcessWaveform \/ UpdateLimiter

SpecLimiter == InitLimiter /\ [][NextLimiter]_vars

----------------------------------------------------------------------------
(* Claims about the Limiter.                                               *)

\* C2: immediately after update_parameters the Limiter's prev_peak is 0.0
\* and its clip_control_history is empty, whatever was processed before.
C2_UpdateResetsLimiter ==
    lres = "update_parameters" =>
        /\ lim.prev_peak = 0
        /\ lim.clip_control_history.items = <<>>

\* The Limiter as it was when its delay line was created, and the stream
\* the delay line has emitted since: its initial zeros, then the input.
LimiterAtBase ==
    [lim EXCEPT !.prev_peak = base.prev_peak,
                !.clip_control_history = base.history,
                !.delay = Delay_from_config(lim.lookahead)]

StreamGains == calculate_gain(LimiterAtBase, inStream).gains

DelayedStream == Delay_from_config(lim.lookahead) \o inStream

\* C6: with lookahead N > 0, over consecutive process_waveform calls the
\* k-th output sample is g_k * x_(k-N): g_k is the gain computed from the
\* undelayed inputs x_0..x_k, x_(k-N) is the input delayed by N samples (the
\* delay line's initial contents for k < N), and no sample is added or lost.
C6_GainOnDelayedStream ==
    (lim.lookahead > 0) =>
        LET g == StreamGains
            x == DelayedStream
        IN  /\ Len(outStream) = Len(inStream)
            /\ \A k \in 1..Len(outStream) : outStream[k] = Mul(x[k], g[k])

\* Two or more calls have fed more than N samples, a gain below 1 has
\* reduced a sample of the input that came out of the delay line.
C6_Witness ==
    /\ lim.lookahead > 0
    /\ lres = "process_waveform"
    /\ Len(inStream) > MaxBlock
    /\ \E k \in (lim.lookahead + 1)..Len(outStream) :
        /\ outStream[k] # 0
        /\ outStream[k] # inStream[k - lim.lookahead]
        /\ outStream[k] # inStream[k]

\* C7: the capacity of clip_control_history is the lookahead field, and the
\* history holds at most lookahead values, also after update_parameters
\* changed lookahead.
C7_HistoryCapacityIsLookahead ==
    /\ lim.clip_control_history.cap = lim.lookahead
    /\ Len(lim.clip_control_history.items) <= lim.lookahead

----------------------------------------------------------------------------
(* validate_compressor on any configuration.                               *)

Lists(indices, maxlen) == UNION {[1..k -> indices] : k \in 0..maxlen}

ValidateConfigs ==
    [channels : 0..MaxValChannels,
     monitor_channels : Lists(0..MaxValChannels, MaxValListLen),
     process_channels : Lists(0..MaxValChannels, MaxValListLen),
     attack : {0 - 1, 0, 1},
     release : {0 - 1, 0, 2},
     threshold : {0 - 20},
     factor : {2},
     makeup_gain : {0},
     clip_limit : {<<>>},
     soft_clip : {FALSE},
     clip_lookahead : {0},
     clip_use_monitor : {FALSE},
     monitor_use_power : {FALSE}]

InitValidate ==
    /\ vcfg = "none"
    /\ vres = NotValidated
    /\ CompressorIdle
    /\ LimiterIdle

Validate ==
    /\ \E c \in ValidateConfigs, overflow_checks \in BOOLEAN :
        /\ vcfg' = c
        /\ vres' = validate_compressor(c, overflow_checks)
    /\ UNCHANGED cvars
    /\ UNCHANGED lvars

NextValidate == Validate

SpecValidate == InitValidate /\ [][NextValidate]_vars

InvalidIndex(config) ==
    \/ \E k \in 1..Len(config.monitor_channels) :
        config.monitor_channels[k] >= config.channels
    \/ \E k \in 1..Len(config.process_channels) :
        config.process_channels[k] >= config.channels

\* C3: validate_compressor returns a ConfigurationError (neither Ok nor an
\* abort) when attack <= 0, release <= 0 or a listed channel index is
\* >= channels, channels = 0 included, and a channel-index error cites
\* channels - 1 as the maximum; it returns Ok for every other configuration.
C3_ValidateRejectsBadConfig ==
    (vres.kind # "none") =>
        IF vcfg.attack <= 0 \/ vcfg.release <= 0 \/ InvalidIndex(vcfg)
        THEN /\ vres.kind = "Err"
             /\ (Len(vres.args) = 2 => vres.args[2] = vcfg.channels - 1)
        ELSE vres = Ok

----------------------------------------------------------------------------
(* The Compressor: a validated configuration, from_config, then            *)
(* process_chunk and update_parameters in any order.  A chunk has the      *)
(* configured number of channels, each of the construction block size.     *)

Waves == {[i \in 1..ChunkSize |-> 0], [i \in 1..ChunkSize |-> IF i = 1 THEN 2000 ELSE 0 - 1000]}

Chunks(channels) == [1..channels -> Waves]

Accepted(config) == \A overflow_checks \in BOOLEAN : validate_compressor(config, overflow_checks) = Ok

CompressorConfigs ==
    {c \in [channels : {2},
            monitor_channels : {<<>>},
            process_channels : {<<>>, <<1>>},
            attack : {1, 2},
            release : {1, 3},
            threshold : {0 - 20},
            factor : {2, 2000},
            makeup_gain : {0},
            clip_limit : {<<>>, <<0>>},
            soft_clip : {FALSE},
            clip_lookahead : {1},
            clip_use_monitor : {FALSE},
            monitor_use_power : {FALSE}] : Accepted(c)}

InitCompressorFrom(configs, samplerates, operations) ==
    /\ \E c \in configs, samplerate \in samplerates :
        /\ cfg = c
        /\ comp = from_config(c, samplerate, ChunkSize)
    /\ chunk = <<>>
    /\ inchunk = <<>>
    /\ monsum = <<>>
    /\ gaincurve = <<>>
    /\ cres = "from_config"
    /\ cops = operations
    /\ LimiterIdle
    /\ ValidateIdle

Init == InitCompressorFrom(CompressorConfigs, {1, 2}, MaxCompOps)

ProcessChunk ==
    /\ cres # "panic"
    /\ cops > 0
    /\ \E input \in Chunks(comp.channels) :
        LET r == process_chunk(comp, input)
        IN  /\ comp' = r.comp
            /\ inchunk' = input
            /\ chunk' = r.waveforms
            /\ monsum' = r.monsum
            /\ gaincurve' = r.gaincurve
            /\ cres' = IF r.panic THEN "panic" ELSE "Ok"
    /\ cops' = cops - 1
    /\ UNCHANGED cfg
    /\ UNCHANGED lvars
    /\ UNCHANGED vvars

UpdateCompressor ==
    /\ cres # "panic"
    /\ cops > 0
    /\ \E c \in CompressorConfigs :
        /\ c.channels = comp.channels
        /\ cfg' = c
        /\ comp' = Compressor_update_parameters(comp, c)
    /\ cres' = "update_parameters"
    /\ cops' = cops - 1
    /\ UNCHANGED <<chunk, inchunk, monsum, gaincurve>>
    /\ UNCHANGED lvars
    /\ UNCHANGED vvars

Next == ProcessChunk \/ UpdateCompressor

Spec == Init /\ [][Next]_vars

----------------------------------------------------------------------------
(* process_chunk of a freshly constructed Compressor, over the channel     *)
(* lists and flags a validated configuration can hold.                     *)

ChunkConfigs ==
    {c \in [channels : 1..MaxChannels,
            monitor_channels : Lists(0..(MaxChannels - 1), MaxListLen),
            process_channels : Lists(0..(MaxChannels - 1), MaxProcessLen),
            attack : {1},
            release : {3},
            threshold : {0 - 20},
            factor : {2000},
            makeup_gain : {0},
            clip_limit : {<<>>, <<0>>},
            soft_clip : {FALSE},
            clip_lookahead : {1},
            clip_use_monitor : BOOLEAN,
            monitor_use_power : BOOLEAN] : Accepted(c)}

InitChunk == InitCompressorFrom(ChunkConfigs, {1}, MaxChunkOps)

NextChunk == ProcessChunk

SpecChunk == InitChunk /\ [][NextChunk]_vars

----------------------------------------------------------------------------
(* Claims about the Compressor.                                            *)

\* C1: immediately after update_parameters the envelope state of the
\* Compressor is that of construction, prev_loudness = 0.0 and
\* prev_gain = 1.0, whatever blocks were processed before.
C1_UpdateResetsEnvelope ==
    cres = "update_parameters" =>
        /\ comp.prev_loudness = 0
        /\ comp.prev_gain = SCALE

\* C4: process_chunk of a Compressor constructed from a configuration that
\* validate_compressor accepts, on a block of `channels` channels of the
\* construction block size, returns Ok: no index is out of range.
C4_ProcessChunkNeverAborts == cres # "panic"

\* The root-sum-of-squares at sample idx of the channels monitor_channels lists.
RootSumOfSquares(list, waveforms, idx) ==
    Sqrt(SeqSum([k \in 1..Len(list) |-> Powi(waveforms[list[k] + 1][idx], 2)]))

\* C5: with monitor_use_power and two or more monitor channels, after
\* sum_monitor_channels every scratch position i holds the root-sum-of-squares
\* of the samples input[ch][i], ch ranging over the values of monitor_channels.
C5_PowerSumOverListedChannels ==
    (cres = "Ok" /\ comp.monitor_use_power /\ Len(comp.monitor_channels) >= 2) =>
        \A i \in 1..ChunkSize :
            monsum[i] = RootSumOfSquares(comp.monitor_channels, inchunk, i)

\* C8: with no limiter bank, after process_chunk every channel listed in
\* process_channels (in any order, an index may repeat) holds its input
\* multiplied exactly once by the gain curve, and every other channel is
\* unchanged.
C8_GainAppliedOncePerListedChannel ==
    (cres = "Ok" /\ ~comp.limiters.some) =>
        \A ch \in 0..(comp.channels - 1) :
            IF ch \in Range(comp.process_channels)
            THEN \A i \in 1..ChunkSize :
                    chunk[ch + 1][i] = Mul(inchunk[ch + 1][i], gaincurve[i])
            ELSE chunk[ch + 1] = inchunk[ch + 1]

\* C9: a Compressor brought to configuration c by update_parameters holds
\* the release and the attack coefficient that from_config(c) gives.
C9_UpdateMatchesConstruction ==
    cres = "update_parameters" =>
        /\ comp.release = from_config(cfg, comp.samplerate, ChunkSize).release
        /\ comp.attack = from_config(cfg, comp.samplerate, ChunkSize).attack

\* C10: the Compressor built by from_config from an accepted configuration
\* holds attack and release coefficients strictly between 0 and 1, also when
\* release <= attack.
C10_CoefficientsInUnitInterval ==
    cres = "from_config" =>
        /\ 0 < comp.attack /\ comp.attack < SCALE
        /\ 0 < comp.release /\ comp.release < SCALE

====
